---- MODULE Spec2Model ----
(***************************************************************************)
(* A model of fusions/model.py: the DiffusionModel class (noise schedule,  *)
(* reverse-time integrator, permutation-based training loop, inference     *)
(* entry points) as a state machine over model instances.                  *)
(*                                                                         *)
(* Abstractions used throughout:                                           *)
(*  - a JAX PRNG key is its path in the split tree, run-length encoded:    *)
(*    <<c1, ..., ck>> stands for the path 0^c1 1 0^c2 1 ... 0^ck, so that  *)
(*    split(key)[0] increments the last count and split(key)[1] appends a  *)
(*    fresh count 0.  Distinct paths are distinct keys.                    *)
(*  - arrays are kept by shape (rows n, columns d) and a value digest;     *)
(*    parameters, statistics and losses are integer digests of everything  *)
(*    that went into them.                                                 *)
(*  - None is encoded 0 for ndims / prior / the _predict attribute.        *)
(***************************************************************************)
EXTENDS Integers, Sequences, FiniteSets, TLC

(* ------------------------------ bounds --------------------------------- *)
\* calls made on one instance in a behaviour of Spec
MaxCalls == 3
\* calls made on one instance in a behaviour of ScenarioSpec
MaxScenarioCalls == 2
\* calls made on the first instance in a behaviour of TwinSpec
MaxTwinCalls == 2
\* largest `steps` whose time grid SchedSpec walks
MaxSchedSteps == 16

(* --------------------------- program constants ------------------------- *)
\* self.beta_min = 1e-3 and self.beta_max = 3, in thousandths
BetaMinMilli == 1
BetaMaxMilli == 3000
\* the loss log cadence: (k + 1) % 100 == 0
LogEvery == 100

\* beta_prior and beta_posterior of NestedDiffusionModel._train (defaults)
BetaPrior == 0
BetaPosterior == 1

Inst == {1, 2}

VARIABLES
    steps,       \* [Inst -> Nat]   self.steps
    prior,       \* [Inst -> Nat]   self.prior: 0 = None, else the columns rvs(n) returns
    chains,      \* [Inst -> Nat]   self.chains: 0 = None (a DiffusionModel), else the
                 \*                 physical columns of the chain of a NestedDiffusionModel
    rng,         \* [Inst -> key]   self.rng
    ndims,       \* [Inst -> Nat]   self.ndims, 0 = None
    state,       \* [Inst -> rec]   self.state (live = FALSE is None)
    predict_fn,  \* [Inst -> Nat]   self._predict: 0 = attribute absent, else the
                 \*                 identity of the lambda bound by the k-th completed train
    jit_cache,   \* [Inst -> set]   the traces jit keeps for reverse_sde
    drawn,       \* [Inst -> set]   keys a random draw has been made from
    reused,      \* [Inst -> set]   keys a random draw has been made from more than once
    ret,         \* [Inst -> rec]   what the last call returned or raised
    ncalls,      \* [Inst -> Nat]   calls made on the instance
    ambient,     \* Nat             the process-wide numpy random state (draws made)
    hist,        \* [Inst -> Seq]   the calls made, recorded under TwinSpec
    sched        \* rec             the schedule evaluations of SchedSpec

vars == <<steps, prior, chains, rng, ndims, state, predict_fn, jit_cache, drawn, reused,
          ret, ncalls, ambient, hist, sched>>

(* ------------------------------ helpers -------------------------------- *)
\* F(v) for the one v of the set S: v is a value, computed once
Bind(S, F(_)) == CHOOSE r \in {F(v) : v \in S} : TRUE

Min(a, b) == IF a <= b THEN a ELSE b

\* value digests: Mix folds one more ingredient into a digest
Mix(a, b) == (a * 31 + b + 7) % 10007

\* the digest of s[lo], ..., s[hi] in this order, folded as a balanced tree
RECURSIVE DigestRange(_, _, _)
DigestRange(s, lo, hi) ==
    IF lo > hi THEN 1
    ELSE IF lo = hi THEN Mix(1, s[lo])
    ELSE Mix(DigestRange(s, lo, (lo + hi) \div 2),
             DigestRange(s, (lo + hi) \div 2 + 1, hi))
SeqDigest(s) == Bind({s}, LAMBDA v : DigestRange(v, 1, Len(v)))

\* s[lo] + ... + s[hi]
RECURSIVE SumRange(_, _, _)
SumRange(s, lo, hi) ==
    IF lo > hi THEN 0
    ELSE IF lo = hi THEN s[lo]
    ELSE SumRange(s, lo, (lo + hi) \div 2) + SumRange(s, (lo + hi) \div 2 + 1, hi)

(* ------------------------------ PRNG keys ------------------------------ *)
\* random.PRNGKey(2022)
RootKey == <<0>>
\* a, b = random.split(key): a is Split0(key), b is Split1(key)
Split0(key) == [key EXCEPT ![Len(key)] = @ + 1]
Split1(key) == Append(key, 0)
KeyDigest(key) == SeqDigest(key)

(* --------------------------- noise schedule ---------------------------- *)
(* A time of the grid is j/N with N = steps - 1; the schedule functions    *)
(* are evaluated exactly, as numerators over a fixed denominator.          *)
\* (mutant) the grid started at 0: jnp.arange(0, R) / (R - 1)
train_ts_from_zero(R) == [j \in 1..R |-> j - 1]

\* jnp.arange(1, R) / (R - 1): the numerators 1 .. R-1 over R-1
train_ts(R) == [j \in 1..(R - 1) |-> j]

\* beta_min + t * (beta_max - beta_min), as a numerator over 1000 * N
beta_t(j, N) == BetaMinMilli * N + j * (BetaMaxMilli - BetaMinMilli)

\* (mutant) the quadratic term subtracted
alpha_t_minus(j, N) == 2 * j * N * BetaMinMilli - j * j * (BetaMaxMilli - BetaMinMilli)

\* t * beta_min + 0.5 * t**2 * (beta_max - beta_min), as a numerator over 2000 * N^2
alpha_t(j, N) == 2 * j * N * BetaMinMilli + j * j * (BetaMaxMilli - BetaMinMilli)

(* exp is kept symbolic: exp(-a) is represented by its exponent a >= 0.    *)
(* Two such values are equal iff the exponents are, exp(-a) <= exp(-b) iff *)
(* a >= b, and exp(-0) is the number 1.                                    *)
\* jnp.exp(-0.5 * alpha_t(t)): the value exp(-e) with e = alpha_t / (4000 * N^2)
mean_factor(j, N) == [exp_neg |-> alpha_t(j, N)]
\* 1 - jnp.exp(-alpha_t(t)): the value 1 - exp(-e) with e = alpha_t / (2000 * N^2)
var(j, N) == [one_minus_exp_neg |-> alpha_t(j, N)]
\* -0.5 * beta_t(t) * x, by the digest of x and the coefficient
drift(x, j, N) == Mix(x, beta_t(j, N) % 10007)
\* jnp.sqrt(beta_t(t)), kept by its square
dispersion(j, N) == [sqrt_of |-> beta_t(j, N)]

(* ------------------------------- arrays -------------------------------- *)
\* an array of n rows and d columns; val = 0 is the all-zero array
Arr(n, d, val) == [n |-> n, d |-> d, val |-> val]
RowVal(a, r) == IF a.val = 0 THEN 0 ELSE Mix(a.val, r)
\* a[perm, :]
Take(a, perm) ==
    Arr(Len(perm), a.d, SeqDigest([j \in 1..Len(perm) |-> RowVal(a, perm[j])]))

(* --------------------------- trainable state --------------------------- *)
\* self.state = None
NoState == [live |-> FALSE, dim |-> 0, params |-> 0, batch_stats |-> 0,
            opt |-> 0, losses |-> <<>>]

\* what a call returned or raised; the fields an operation does not set keep
\* these values
NoRet == [op |-> "none", err |-> "none", n |-> 0, d |-> 0, batch_size |-> 0,
          n_epochs |-> 0, restart |-> FALSE, fresh |-> FALSE, dim_ok |-> FALSE,
          eff_batch |-> 0, grad_steps |-> 0, epochs_done |-> 0, idx_ok |-> TRUE,
          shape |-> <<0, 0>>, history |-> FALSE, hist_len |-> 0, out |-> 0,
          samples |-> Arr(0, 0, 0), key |-> <<>>, repeat |-> FALSE,
          prev_out |-> 0, start |-> NoState, losses |-> <<>>, batches |-> <<>>]

(* The mutable part of one instance while a call runs on it. *)
Machine(i) ==
    [rng |-> rng[i], ndims |-> ndims[i], state |-> state[i],
     predict_fn |-> predict_fn[i], jit_cache |-> jit_cache[i],
     drawn |-> drawn[i], reused |-> reused[i], ambient |-> ambient,
     chains |-> chains[i], err |-> "none"]

\* a random draw made from `key`
Draw(m, key) ==
    [m EXCEPT !.reused = IF key \in m.drawn THEN @ \cup {key} ELSE @,
              !.drawn = @ \cup {key}]

(* ------------------------------ training ------------------------------- *)
\* jax.random.permutation(step_rng, train_size): a bijection of the row
\* indices 0 .. n-1 that the key alone decides
\* (mutant) n indices drawn independently of each other: random.randint
randint_indices(key, n) ==
    Bind({KeyDigest(key)}, LAMBDA h : [j \in 1..n |-> (h + j * (j \div 2)) % n])

permutation(key, n) ==
    Bind({KeyDigest(key)}, LAMBDA h :
        [j \in 1..n |-> IF h % 2 = 0 THEN (h + j - 1) % n ELSE (h + n - j) % n])

\* (mutant) the requested batch size used as it is
ClampBatchNone(batch_size, train_size) == batch_size

\* batch_size = min(batch_size, train_size)
ClampBatch(batch_size, train_size) == Min(batch_size, train_size)

\* (mutant) the epoch index tested as it is: k % 100 == 0
ShouldLogFromZero(k) == k % LogEvery = 0

\* if (k + 1) % 100 == 0
ShouldLog(k) == (k + 1) % LogEvery = 0

\* (mutant) the mean of the last 100 losses only
mean_windowed(losses) ==
    SumRange(losses, Len(losses) - LogEvery + 1, Len(losses)) \div LogEvery

\* jnp.mean(jnp.array(losses)), losses being thousandths
mean(losses) == SumRange(losses, 1, Len(losses)) \div Len(losses)

(* The score network (ScoreApprox with TrainState.apply_fn) called on an   *)
(* input of x.d columns: its parameters were shaped by the dummy forward   *)
(* pass of _init_state, so an input of another width is a shape fault.     *)
ApplyFault(st, x) == st.dim # x.d

\* the columns of the sum of an array of a columns and one of b columns
\* (the rows being alike): a column count of 1 is stretched; 0 = the
\* shapes do not broadcast
BroadcastCols(a, b) ==
    IF a = b THEN a ELSE IF a = 1 THEN b ELSE IF b = 1 THEN a ELSE 0

(* DiffusionModel.loss: the two sub-keys it draws from, the faults raised  *)
(* while it is traced, its value and the updated batch statistics.         *)
loss(st, batch, batch_prior, key, R) ==
    LET t_key  == Split1(key)
        rng1   == Split0(key)
        n_key  == Split1(rng1)
    IN  Bind({KeyDigest(t_key)}, LAMBDA h :
        \* random.randint(step_rng, (N_batch, 1), 1, self.steps): row r of t
        Bind({[r \in 1..batch.n |-> 1 + ((h + r) % (R - 1))]}, LAMBDA t :
        Bind({Mix(Mix(batch.val, batch_prior.val),
                  Mix(KeyDigest(n_key),
                      SeqDigest([r \in 1..batch.n |->
                          Mix(mean_factor(t[r], R - 1).exp_neg % 10007,
                              var(t[r], R - 1).one_minus_exp_neg % 10007)])))},
             LAMBDA xt :
        Bind({Mix(Mix(st.params, st.batch_stats), xt)}, LAMBDA output :
            \* noise = batch_prior + random.normal(step_rng, batch.shape);
            \* xt = batch * mean_coeff + noise * stds; apply_fn(..., xt, t, ...)
            [err   |-> IF BroadcastCols(batch_prior.d, batch.d) = 0 THEN "TypeError"
                       ELSE IF ApplyFault(st, Arr(batch.n,
                                   BroadcastCols(batch_prior.d, batch.d), 1))
                       THEN "ShapeError"
                       ELSE "none",
             keys  |-> <<t_key, n_key>>,
             val   |-> Mix(output, xt) % 1000,
             grad  |-> Mix(xt, output),
             stats |-> Mix(st.batch_stats, xt)]))))

(* update_step: value_and_grad of the loss, one optimizer update, the      *)
(* batch statistics replaced; the state is a new value.                    *)
update_step(st, batch, batch_prior, key, R) ==
    Bind({loss(st, batch, batch_prior, key, R)}, LAMBDA l :
        [err   |-> l.err,
         keys  |-> l.keys,
         val   |-> l.val,
         state |-> [st EXCEPT !.params = Mix(@, l.grad),
                              !.opt = @ + 1,
                              !.batch_stats = l.stats]])

\* the rows a minibatch indexes are rows of the data
RowsInRange(perm, train_size) ==
    \A j \in 1..Len(perm) : perm[j] >= 0 /\ perm[j] <= train_size - 1

(* One pass of `for perm in perms`: minibatch j of the epoch. L carries    *)
(* the instance (m), the call's losses list and its counters.              *)
BatchStep(L, data, prior_samples, perms, batch_size, j, R) ==
    LET step_rng == Split1(L.m.rng)
        m1       == [L.m EXCEPT !.rng = Split0(@)]
    IN  Bind({SubSeq(perms, (j - 1) * batch_size + 1, j * batch_size)}, LAMBDA perm :
        Bind({update_step(m1.state, Take(data, perm), Take(prior_samples, perm),
                          step_rng, R)}, LAMBDA u :
            IF u.err # "none"
            THEN [L EXCEPT !.m = [m1 EXCEPT !.err = u.err]]
            ELSE [L EXCEPT !.m = [Draw(Draw(m1, u.keys[1]), u.keys[2])
                                     EXCEPT !.state = u.state],
                           !.losses = Append(@, u.val),
                           \* batch = data[perm, :]; batch_prior = prior_samples[perm, :]
                           !.batches = Append(@, [epoch |-> L.epoch,
                                                  perm_key |-> L.perm_key,
                                                  rows |-> perm,
                                                  prior_rows |-> perm]),
                           !.grad_steps = @ + 1,
                           !.idx_ok = @ /\ RowsInRange(perm, data.n)]))

(* for perm in perms: ... -- minibatches j .. steps_per_epoch of one epoch *)
RECURSIVE BatchLoop(_, _, _, _, _, _, _)
BatchLoop(L, data, prior_samples, perms, batch_size, j, R) ==
    IF j * batch_size > Len(perms) \/ L.m.err # "none" THEN L
    ELSE Bind({BatchStep(L, data, prior_samples, perms, batch_size, j, R)}, LAMBDA L1 :
             BatchLoop(L1, data, prior_samples, perms, batch_size, j + 1, R))

(* One pass of `for k in tepochs`: epoch k. *)
EpochStep(L, data, prior_samples, batch_size, steps_per_epoch, k, R) ==
    LET step_rng == Split1(L.m.rng)
        m1       == Draw([L.m EXCEPT !.rng = Split0(@)], step_rng)
    IN  \* perms[: steps_per_epoch * batch_size], read in rows of batch_size
        Bind({SubSeq(permutation(step_rng, data.n), 1, steps_per_epoch * batch_size)},
             LAMBDA perms :
        Bind({BatchLoop([L EXCEPT !.m = m1, !.epoch = k, !.perm_key = step_rng],
                        data, prior_samples, perms,
                        batch_size, 1, R)}, LAMBDA L1 :
            IF L1.m.err # "none" THEN L1
            ELSE IF ShouldLog(k)
            THEN [L1 EXCEPT !.m.state.losses = Append(@, <<mean(L1.losses), k>>),
                            !.epochs_done = @ + 1]
            ELSE [L1 EXCEPT !.epochs_done = @ + 1]))

(* for k in tepochs: ... -- epochs k .. n_epochs-1, in this order, until   *)
(* one raises (the range is halved to keep the evaluation shallow).        *)
RECURSIVE EpochLoop(_, _, _, _, _, _, _, _)
EpochLoop(L, data, prior_samples, batch_size, steps_per_epoch, k, n_epochs, R) ==
    IF k >= n_epochs \/ L.m.err # "none" THEN L
    ELSE IF n_epochs - k = 1
    THEN EpochStep(L, data, prior_samples, batch_size, steps_per_epoch, k, R)
    ELSE Bind({EpochLoop(L, data, prior_samples, batch_size, steps_per_epoch, k,
                         k + (n_epochs - k) \div 2, R)}, LAMBDA L1 :
             EpochLoop(L1, data, prior_samples, batch_size, steps_per_epoch,
                       k + (n_epochs - k) \div 2, n_epochs, R))

(* DiffusionModel._init_state: parameters initialised from self.rng (which *)
(* is left as it is), a fresh optimizer, an empty loss log.                *)
init_state(m) ==
    [Draw(m, m.rng) EXCEPT
        !.state = [live |-> TRUE, dim |-> m.ndims,
                   params |-> Mix(KeyDigest(m.rng), m.ndims),
                   batch_stats |-> 1, opt |-> 0, losses |-> <<>>]]

\* self.prior.rvs(n): n rows of pr columns decided by the process-wide
\* numpy state g alone
prior_rvs(g, n, pr) == Arr(n, pr, 1 + Mix(g, n))

(* DiffusionModel._train. pr is self.prior. *)
train_loop(m, data, batch_size, n_epochs, R, pr) ==
    LET train_size == data.n
        m1   == IF pr # 0 THEN [m EXCEPT !.ambient = @ + 1] ELSE m
        pool == IF pr # 0 THEN prior_rvs(m.ambient, train_size, pr)
                ELSE Arr(train_size, data.d, 0)     \* jnp.zeros_like(data)
        bs   == ClampBatch(batch_size, train_size)
        L0   == [m |-> m1, losses |-> <<>>, grad_steps |-> 0, epochs_done |-> 0,
                 idx_ok |-> TRUE, eff_batch |-> bs, batches |-> <<>>,
                 epoch |-> 0, perm_key |-> <<>>]
    IN  IF bs = 0
        THEN [L0 EXCEPT !.m.err = "ZeroDivisionError"]  \* train_size // batch_size
        ELSE Bind({L0}, LAMBDA L : Bind({pool}, LAMBDA prior_samples :
                 EpochLoop(L, data, prior_samples, bs, train_size \div bs, 0,
                           n_epochs, R)))

\* self._train(data, **kwargs) and the rebinding of self._predict, on the
\* instance m2 that train hands to them; start is the trainable state the
\* training loop begins with
train_from(m2, inp, R, pr) ==
    Bind({Arr(inp.n, inp.d, 1 + inp.id)}, LAMBDA data :
    Bind({train_loop(m2, data, inp.batch_size, inp.n_epochs, R, pr)}, LAMBDA L :
        [start |-> m2.state] @@
        (IF L.m.err # "none" THEN L
         ELSE [L EXCEPT !.m.predict_fn = @ + 1])))

\* (mutant) the restart keyword ignored: if not self.state
train_ignoring_restart(m, inp, R, pr) ==
    LET m1 == [m EXCEPT !.ndims = inp.d]
    IN  Bind({IF ~m1.state.live THEN init_state(m1) ELSE m1},
             LAMBDA m2 : train_from(m2, inp, R, pr))

(* DiffusionModel.train(data, restart, batch_size, n_epochs) as a whole.   *)
train(m, inp, R, pr) ==
    LET m1 == [m EXCEPT !.ndims = inp.d]
    IN  Bind({IF (~m1.state.live) \/ inp.restart THEN init_state(m1) ELSE m1},
             LAMBDA m2 : train_from(m2, inp, R, pr))

(* --------------------- training, NestedDiffusionModel ------------------- *)
\* self.chains.set_beta(beta).sample(n).to_numpy()[..., :-3]: n rows (drawn
\* with replacement) of the chain's ch physical columns, decided by the
\* process-wide numpy state g
chain_sample(g, n, ch, beta) == Arr(n, ch, 1 + Mix(Mix(g, n), beta))

(* NestedDiffusionModel.loss: as DiffusionModel.loss, the score network    *)
(* being called on xt, batch_prior and t.                                  *)
nested_loss(st, batch, batch_prior, key, R) ==
    LET t_key  == Split1(key)
        rng1   == Split0(key)
        n_key  == Split1(rng1)
    IN  Bind({KeyDigest(t_key)}, LAMBDA h :
        Bind({[r \in 1..batch.n |-> 1 + ((h + r) % (R - 1))]}, LAMBDA t :
        Bind({Mix(Mix(batch.val, batch_prior.val),
                  Mix(KeyDigest(n_key),
                      SeqDigest([r \in 1..batch.n |->
                          Mix(mean_factor(t[r], R - 1).exp_neg % 10007,
                              var(t[r], R - 1).one_minus_exp_neg % 10007)])))},
             LAMBDA xt :
        Bind({Mix(Mix(Mix(st.params, st.batch_stats), xt), batch_prior.val)},
             LAMBDA output :
            [err   |-> IF BroadcastCols(batch_prior.d, batch.d) = 0 THEN "TypeError"
                       ELSE IF ApplyFault(st, Arr(batch.n,
                                   BroadcastCols(batch_prior.d, batch.d), 1))
                       THEN "ShapeError"
                       ELSE "none",
             keys  |-> <<t_key, n_key>>,
             val   |-> Mix(output, xt) % 1000,
             grad  |-> Mix(xt, output),
             stats |-> Mix(st.batch_stats, xt)]))))

\* update_step of NestedDiffusionModel._train
nested_update_step(st, batch, batch_prior, key, R) ==
    Bind({nested_loss(st, batch, batch_prior, key, R)}, LAMBDA l :
        [err   |-> l.err,
         keys  |-> l.keys,
         val   |-> l.val,
         state |-> [st EXCEPT !.params = Mix(@, l.grad),
                              !.opt = @ + 1,
                              !.batch_stats = l.stats]])

(* One pass of `for k in tepochs` of NestedDiffusionModel._train: two      *)
(* batches drawn from the chain, one split of self.rng, one update.        *)
(* Neither update_step nor loss is jitted here (the decorators are         *)
(* commented out), so random.randint and random.normal have drawn from     *)
(* their keys by the time the addition or apply_fn raises.                 *)
NestedEpochStep(L, batch_size, k, R) ==
    LET ch       == L.m.chains
        g        == L.m.ambient
        step_rng == Split1(L.m.rng)
        m1       == [L.m EXCEPT !.rng = Split0(@), !.ambient = @ + 2]
    IN  Bind({nested_update_step(m1.state,
                                 chain_sample(g + 1, batch_size, ch, BetaPosterior),
                                 chain_sample(g, batch_size, ch, BetaPrior),
                                 step_rng, R)}, LAMBDA u :
        IF u.err # "none"
        THEN [L EXCEPT !.m = [Draw(Draw(m1, u.keys[1]), u.keys[2])
                                 EXCEPT !.err = u.err]]
        ELSE Bind({[L EXCEPT !.m = [Draw(Draw(m1, u.keys[1]), u.keys[2])
                                       EXCEPT !.state = u.state],
                             !.losses = Append(@, u.val),
                             !.grad_steps = @ + 1]}, LAMBDA L1 :
            IF ShouldLog(k)
            THEN [L1 EXCEPT !.m.state.losses = Append(@, <<mean(L1.losses), k>>),
                            !.epochs_done = @ + 1]
            ELSE [L1 EXCEPT !.epochs_done = @ + 1]))

(* for k in tepochs of NestedDiffusionModel._train: epochs k .. n_epochs-1 *)
(* (the range is halved to keep the evaluation shallow).                   *)
RECURSIVE NestedEpochLoop(_, _, _, _, _)
NestedEpochLoop(L, batch_size, k, n_epochs, R) ==
    IF k >= n_epochs \/ L.m.err # "none" THEN L
    ELSE IF n_epochs - k = 1
    THEN NestedEpochStep(L, batch_size, k, R)
    ELSE Bind({NestedEpochLoop(L, batch_size, k, k + (n_epochs - k) \div 2, R)},
              LAMBDA L1 :
             NestedEpochLoop(L1, batch_size, k + (n_epochs - k) \div 2, n_epochs, R))

(* NestedDiffusionModel._init_state: as DiffusionModel._init_state, the    *)
(* network initialised with the conditioning input.                        *)
nested_init_state(m) ==
    [Draw(m, m.rng) EXCEPT
        !.state = [live |-> TRUE, dim |-> m.ndims,
                   params |-> Mix(KeyDigest(m.rng), m.ndims),
                   batch_stats |-> 1, opt |-> 0, losses |-> <<>>]]

(* NestedDiffusionModel._train: no data argument, no clamp of batch_size.  *)
nested_train_loop(m, batch_size, n_epochs, R) ==
    Bind({[m |-> m, losses |-> <<>>, grad_steps |-> 0, epochs_done |-> 0,
           idx_ok |-> TRUE, eff_batch |-> batch_size, batches |-> <<>>,
           epoch |-> 0, perm_key |-> <<>>]}, LAMBDA L :
        NestedEpochLoop(L, batch_size, 0, n_epochs, R))

(* NestedDiffusionModel.train(restart, batch_size, n_epochs) as a whole.   *)
nested_train(m, inp, R) ==
    LET m1 == [m EXCEPT !.ndims = m.chains]
    IN  Bind({IF (~m1.state.live) \/ inp.restart THEN nested_init_state(m1) ELSE m1},
             LAMBDA m2 :
        Bind({nested_train_loop(m2, inp.batch_size, inp.n_epochs, R)}, LAMBDA L :
            [start |-> m2.state] @@
            (IF L.m.err # "none" THEN L
             ELSE [L EXCEPT !.m.predict_fn = @ + 1])))

(* ------------------------------ inference ------------------------------ *)
(* sample_prior(n): the instance afterwards and the samples. *)
sample_prior(m, n, pr) ==
    IF pr # 0
    THEN [m |-> [m EXCEPT !.ambient = @ + 1], samples |-> prior_rvs(m.ambient, n, pr)]
    ELSE
      LET step_rng == Split1(m.rng)
          m1       == [m EXCEPT !.rng = Split0(@)]
      IN  IF m1.ndims = 0
          \* random.normal(step_rng, (n, None)) raises
          THEN [m |-> [m1 EXCEPT !.err = "TypeError"], samples |-> Arr(0, 0, 0)]
          ELSE [m |-> Draw(m1, step_rng),
                samples |-> Arr(n, m1.ndims, 1 + Mix(KeyDigest(step_rng), n))]

(* One step f(carry, params) of the scan: carry c = [x, rng, x_t, keys],   *)
(* x an array, time t = ts[p] and step dt = ts[p+1] - ts[p] of the grid    *)
(* with N = R-1; e holds what the trace closed over. The new x has the     *)
(* shape of x, drift, score and noise, which is the shape of the old x.    *)
scan_f(c, t, dt, N, e) ==
    LET step_rng == Split1(c.rng)
        disp     == dispersion(N - t, N)
        score    == Mix(Mix(e.params, e.batch_stats), Mix(c.x.val, N - t))
        dr       == Mix(drift(c.x.val, N - t, N), Mix(disp.sqrt_of % 10007, score))
        noise    == KeyDigest(step_rng)
    IN  [x    |-> Arr(c.x.n, c.x.d,
                      Mix(Mix(c.x.val, Mix(dt, dr)),
                          Mix(dt, Mix(disp.sqrt_of % 10007, noise)))),
         rng  |-> Split0(c.rng),
         x_t  |-> Append(c.x_t, c.x),
         keys |-> Append(c.keys, step_rng)]

\* scan(f, (initial_samples, rng), params): rows p .. of params, one row
\* for each interval of the grid ts
RECURSIVE scan(_, _, _, _, _)
scan(c, ts, p, N, e) ==
    IF p > Len(ts) - 1 THEN c
    ELSE Bind({scan_f(c, ts[p], ts[p + 1] - ts[p], N, e)}, LAMBDA c1 :
             scan(c1, ts, p + 1, N, e))

RECURSIVE DrawAll(_, _, _)
DrawAll(m, keys, k) ==
    IF k > Len(keys) THEN m
    ELSE Bind({Draw(m, keys[k])}, LAMBDA m1 : DrawAll(m1, keys, k + 1))

\* the trace jit keeps for (self, score, shape of initial_samples)
CacheHit(m, samples) ==
    {e \in m.jit_cache :
        e.fn = m.predict_fn /\ e.n = samples.n /\ e.d = samples.d}

(* reverse_sde(initial_samples, self._predict) under                       *)
(* @partial(jit, static_argnums=[0, 2]): a first call for a score function *)
(* and an input shape traces the body, closing over self.rng and over the  *)
(* parameters self._predict reads; later calls run that trace.             *)
reverse_sde(m, samples, R) ==
    LET fresh == [fn |-> m.predict_fn, n |-> samples.n, d |-> samples.d,
                  key |-> m.rng, params |-> m.state.params,
                  batch_stats |-> m.state.batch_stats]
    IN  Bind({CacheHit(m, samples)}, LAMBDA hit :
        IF hit = {} /\ ApplyFault(m.state, samples)
        THEN [m |-> [m EXCEPT !.err = "ShapeError"], x |-> Arr(0, 0, 0), x_t |-> <<>>,
              key |-> <<>>]
        ELSE
          Bind({IF hit # {} THEN CHOOSE h \in hit : TRUE ELSE fresh}, LAMBDA e :
          Bind({train_ts(R)}, LAMBDA ts :
          Bind({scan([x |-> samples, rng |-> Split0(e.key), x_t |-> <<>>,
                      keys |-> <<>>], ts, 1, R - 1, e)}, LAMBDA c :
              [m |-> DrawAll([m EXCEPT !.jit_cache = @ \cup {e}], c.keys, 1),
               x |-> c.x, x_t |-> c.x_t, key |-> e.key]))))

\* NestedDiffusionModel.sample_prior(n): n rows of the chain at beta = 0.0
nested_sample_prior(m, n) ==
    [m |-> [m EXCEPT !.ambient = @ + 1],
     samples |-> chain_sample(m.ambient, n, m.chains, 0)]

(* One step f(carry, params) of the scan of NestedDiffusionModel: the      *)
(* score is called on x, initial_samples (pi) and the time.                *)
nested_scan_f(c, pi, t, dt, N, e) ==
    LET step_rng == Split1(c.rng)
        disp     == dispersion(N - t, N)
        score    == Mix(Mix(Mix(e.params, e.batch_stats), Mix(c.x.val, N - t)), pi.val)
        dr       == Mix(drift(c.x.val, N - t, N), Mix(disp.sqrt_of % 10007, score))
        noise    == KeyDigest(step_rng)
    IN  [x    |-> Arr(c.x.n, c.x.d,
                      Mix(Mix(c.x.val, Mix(dt, dr)),
                          Mix(dt, Mix(disp.sqrt_of % 10007, noise)))),
         rng  |-> Split0(c.rng),
         x_t  |-> Append(c.x_t, c.x),
         keys |-> Append(c.keys, step_rng)]

RECURSIVE nested_scan(_, _, _, _, _, _)
nested_scan(c, pi, ts, p, N, e) ==
    IF p > Len(ts) - 1 THEN c
    ELSE Bind({nested_scan_f(c, pi, ts[p], ts[p + 1] - ts[p], N, e)}, LAMBDA c1 :
             nested_scan(c1, pi, ts, p + 1, N, e))

(* NestedDiffusionModel.reverse_sde, under the same jit decorator.         *)
nested_reverse_sde(m, samples, R) ==
    LET fresh == [fn |-> m.predict_fn, n |-> samples.n, d |-> samples.d,
                  key |-> m.rng, params |-> m.state.params,
                  batch_stats |-> m.state.batch_stats]
    IN  Bind({CacheHit(m, samples)}, LAMBDA hit :
        IF hit = {} /\ ApplyFault(m.state, samples)
        THEN [m |-> [m EXCEPT !.err = "ShapeError"], x |-> Arr(0, 0, 0), x_t |-> <<>>,
              key |-> <<>>]
        ELSE
          Bind({IF hit # {} THEN CHOOSE h \in hit : TRUE ELSE fresh}, LAMBDA e :
          Bind({train_ts(R)}, LAMBDA ts :
          Bind({nested_scan([x |-> samples, rng |-> Split0(e.key), x_t |-> <<>>,
                             keys |-> <<>>], samples, ts, 1, R - 1, e)}, LAMBDA c :
              [m |-> DrawAll([m EXCEPT !.jit_cache = @ \cup {e}], c.keys, 1),
               x |-> c.x, x_t |-> c.x_t, key |-> e.key]))))

\* self.reverse_sde(initial_samples, self._predict): the method of the
\* instance's class
self_reverse_sde(m, samples, R) ==
    IF m.chains # 0 THEN nested_reverse_sde(m, samples, R)
    ELSE reverse_sde(m, samples, R)

\* self.sample_prior(n): the method of the instance's class
self_sample_prior(m, n, pr) ==
    IF m.chains # 0 THEN nested_sample_prior(m, n) ELSE sample_prior(m, n, pr)

(* (mutant) the score network run in training mode during inference: the  *)
(* batch statistics of the state move with every call.                     *)
predict_train_mode(m, samples, R) ==
    IF m.predict_fn = 0
    THEN [m |-> [m EXCEPT !.err = "AttributeError"], x |-> Arr(0, 0, 0), x_t |-> <<>>,
          key |-> <<>>]
    ELSE Bind({self_reverse_sde(m, samples, R)}, LAMBDA p :
             IF p.m.err # "none" THEN p
             ELSE [p EXCEPT !.m.state.batch_stats = Mix(@, samples.val)])

(* predict(initial_samples, history): self._predict is read first.         *)
predict(m, samples, R) ==
    IF m.predict_fn = 0
    THEN [m |-> [m EXCEPT !.err = "AttributeError"], x |-> Arr(0, 0, 0), x_t |-> <<>>,
          key |-> <<>>]
    ELSE self_reverse_sde(m, samples, R)

(* sample_posterior(n): self.predict(self.sample_prior(n), **kwargs).      *)
sample_posterior(m, n, R, pr) ==
    Bind({self_sample_prior(m, n, pr)}, LAMBDA sp :
        IF sp.m.err # "none"
        THEN [m |-> sp.m, x |-> Arr(0, 0, 0), x_t |-> <<>>, key |-> <<>>, samples |-> sp.samples]
        ELSE [samples |-> sp.samples] @@ predict(sp.m, sp.samples, R))

(* ------------------------------- inputs -------------------------------- *)
\* the constructor's steps and prior (0 = None, else the prior's columns)
StepsChoices == {2, 3, 4}
PriorChoices == {0, 1, 2}

TrainInput(n, d, batch_size, n_epochs, restart) ==
    [n |-> n, d |-> d, id |-> 0, batch_size |-> batch_size,
     n_epochs |-> n_epochs, restart |-> restart]

\* train(data, batch_size, n_epochs, restart) with data of n rows, d columns
TrainInputs ==
    { TrainInput(t[1], t[2], t[3], t[4], r) :
        t \in { <<5, 2, 2, 2>>,     \* two minibatches per epoch, a row left over
                <<2, 2, 5, 2>>,     \* batch_size above the rows
                <<2, 2, 1, 1>>,     \* two minibatches per epoch
                <<0, 2, 2, 1>>,     \* no rows
                <<2, 3, 5, 1>>,     \* three columns, batch_size above the rows
                <<2, 3, 2, 0>> },   \* three columns, no epochs
        r \in BOOLEAN }

\* predict(initial_samples, history) with samples of n rows, d columns
PredictInputs ==
    { [n |-> 2, d |-> 2, id |-> 0, history |-> FALSE],
      [n |-> 2, d |-> 2, id |-> 0, history |-> TRUE],
      [n |-> 1, d |-> 3, id |-> 0, history |-> TRUE] }

\* sample_posterior(n, history)
PosteriorInputs == { [n |-> 2, history |-> FALSE], [n |-> 1, history |-> TRUE] }

\* sample_prior(n)
PriorInputs == {2}

\* the physical columns of the chain a NestedDiffusionModel is made from
ChainChoices == {2}

NestedTrainInput(batch_size, n_epochs, restart) ==
    [batch_size |-> batch_size, n_epochs |-> n_epochs, restart |-> restart]

\* NestedDiffusionModel.train(batch_size, n_epochs, restart)
NestedTrainInputs ==
    { NestedTrainInput(t[1], t[2], r) :
        t \in { <<2, 2>>, <<5, 1>>, <<1, 0>> }, r \in BOOLEAN }

(* ------------------------------- actions ------------------------------- *)
Commit(i, m, r) ==
    /\ rng' = [rng EXCEPT ![i] = m.rng]
    /\ ndims' = [ndims EXCEPT ![i] = m.ndims]
    /\ state' = [state EXCEPT ![i] = m.state]
    /\ predict_fn' = [predict_fn EXCEPT ![i] = m.predict_fn]
    /\ jit_cache' = [jit_cache EXCEPT ![i] = m.jit_cache]
    /\ drawn' = [drawn EXCEPT ![i] = m.drawn]
    /\ reused' = [reused EXCEPT ![i] = m.reused]
    /\ ambient' = m.ambient
    /\ ret' = [ret EXCEPT ![i] = [r EXCEPT !.err = m.err]]
    /\ ncalls' = [ncalls EXCEPT ![i] = @ + 1]
    /\ UNCHANGED <<steps, prior, chains, sched>>

\* instance i runs train(inp)
TrainCall(i, inp) ==
    \E L \in {train(Machine(i), inp, steps[i], prior[i])} :
        Commit(i, L.m,
               [NoRet EXCEPT !.op = "train", !.n = inp.n, !.d = inp.d,
                             !.batch_size = inp.batch_size,
                             !.n_epochs = inp.n_epochs, !.restart = inp.restart,
                             !.fresh = (ndims[i] = 0),
                             !.dim_ok = /\ (~state[i].live) \/ inp.restart
                                           \/ state[i].dim = inp.d
                                        /\ prior[i] \in {0, 1, inp.d},
                             !.eff_batch = L.eff_batch,
                             !.grad_steps = L.grad_steps,
                             !.epochs_done = L.epochs_done,
                             !.idx_ok = L.idx_ok,
                             !.start = L.start,
                             !.losses = L.losses,
                             !.batches = L.batches])

\* instance i, a NestedDiffusionModel, runs train(inp)
NestedTrainCall(i, inp) ==
    \E L \in {nested_train(Machine(i), inp, steps[i])} :
        Commit(i, L.m,
               [NoRet EXCEPT !.op = "nested_train", !.d = chains[i],
                             !.batch_size = inp.batch_size,
                             !.n_epochs = inp.n_epochs, !.restart = inp.restart,
                             !.fresh = (ndims[i] = 0),
                             !.dim_ok = (~state[i].live) \/ inp.restart
                                        \/ state[i].dim = chains[i],
                             !.eff_batch = L.eff_batch,
                             !.grad_steps = L.grad_steps,
                             !.epochs_done = L.epochs_done,
                             !.start = L.start,
                             !.losses = L.losses])

\* what a predict or sample_posterior call returns, from the result p of
\* the integrator on `samples`
InferenceRet(i, op, samples, history, p) ==
    LET ok   == p.m.err = "none"
        same == /\ ok
                /\ ret[i].op \in {"predict", "sample_posterior"}
                /\ ret[i].err = "none"
                /\ ret[i].samples = samples
                /\ ret[i].key = p.key
    IN  [NoRet EXCEPT !.op = op, !.n = samples.n, !.d = samples.d,
                      !.history = history,
                      !.shape = <<p.x.n, p.x.d>>,
                      !.hist_len = IF ok /\ history THEN Len(p.x_t) ELSE 0,
                      !.out = p.x.val, !.samples = samples, !.key = p.key,
                      !.repeat = same,
                      !.prev_out = IF same THEN ret[i].out ELSE 0]

\* instance i runs predict(inp)
PredictCall(i, inp) ==
    \E samples \in {Arr(inp.n, inp.d, 1 + inp.id)} :
      \E p \in {predict(Machine(i), samples, steps[i])} :
        \E r \in {InferenceRet(i, "predict", samples, inp.history, p)} :
          Commit(i, p.m, r)

\* instance i runs sample_posterior(inp)
SamplePosteriorCall(i, inp) ==
    \E p \in {sample_posterior(Machine(i), inp.n, steps[i], prior[i])} :
      \E r \in {InferenceRet(i, "sample_posterior", p.samples, inp.history, p)} :
        Commit(i, p.m, r)

\* instance i runs sample_prior(n)
SamplePriorCall(i, n) ==
    \E sp \in {sample_prior(Machine(i), n, prior[i])} :
        Commit(i, sp.m,
               [NoRet EXCEPT !.op = "sample_prior", !.n = n,
                             !.shape = <<sp.samples.n, sp.samples.d>>,
                             !.samples = sp.samples])

\* instance i, a NestedDiffusionModel, runs sample_prior(n)
NestedSamplePriorCall(i, n) ==
    \E sp \in {nested_sample_prior(Machine(i), n)} :
        Commit(i, sp.m,
               [NoRet EXCEPT !.op = "sample_prior", !.n = n,
                             !.shape = <<sp.samples.n, sp.samples.d>>,
                             !.samples = sp.samples])

(* --------------------------- specification ----------------------------- *)
NoSched == [steps |-> 0, j |-> 0, alpha |-> 0, mean_factor |-> [exp_neg |-> 0],
            var |-> [one_minus_exp_neg |-> 0], prev_j |-> 0, prev_alpha |-> 0,
            prev_var |-> [one_minus_exp_neg |-> 0]]

\* two instances constructed alike: DiffusionModel(prior, steps=R)
Construct(R, pr) ==
    /\ steps = [i \in Inst |-> R]
    /\ prior = [i \in Inst |-> pr]
    /\ chains = [i \in Inst |-> 0]
    /\ rng = [i \in Inst |-> RootKey]
    /\ ndims = [i \in Inst |-> 0]
    /\ state = [i \in Inst |-> NoState]
    /\ predict_fn = [i \in Inst |-> 0]
    /\ jit_cache = [i \in Inst |-> {}]
    /\ drawn = [i \in Inst |-> {}]
    /\ reused = [i \in Inst |-> {}]
    /\ ret = [i \in Inst |-> NoRet]
    /\ ncalls = [i \in Inst |-> 0]
    /\ ambient = 0
    /\ hist = [i \in Inst |-> <<>>]
    /\ sched = NoSched

\* two instances constructed alike: NestedDiffusionModel(samples, steps=R),
\* the chain `samples` having ch physical columns
ConstructNested(R, ch) ==
    /\ steps = [i \in Inst |-> R]
    /\ prior = [i \in Inst |-> 0]
    /\ chains = [i \in Inst |-> ch]
    /\ rng = [i \in Inst |-> RootKey]
    /\ ndims = [i \in Inst |-> 0]
    /\ state = [i \in Inst |-> NoState]
    /\ predict_fn = [i \in Inst |-> 0]
    /\ jit_cache = [i \in Inst |-> {}]
    /\ drawn = [i \in Inst |-> {}]
    /\ reused = [i \in Inst |-> {}]
    /\ ret = [i \in Inst |-> NoRet]
    /\ ncalls = [i \in Inst |-> 0]
    /\ ambient = 0
    /\ hist = [i \in Inst |-> <<>>]
    /\ sched = NoSched

Init ==
    \/ \E R \in StepsChoices, pr \in PriorChoices : Construct(R, pr)
    \/ \E R \in StepsChoices, ch \in ChainChoices : ConstructNested(R, ch)

Train ==
    \E inp \in TrainInputs :
        /\ ncalls[1] < MaxCalls /\ chains[1] = 0
        /\ TrainCall(1, inp) /\ UNCHANGED hist

NestedTrain ==
    \E inp \in NestedTrainInputs :
        /\ ncalls[1] < MaxCalls /\ chains[1] # 0
        /\ NestedTrainCall(1, inp) /\ UNCHANGED hist

Predict ==
    \E inp \in PredictInputs :
        ncalls[1] < MaxCalls /\ PredictCall(1, inp) /\ UNCHANGED hist

SamplePosterior ==
    \E inp \in PosteriorInputs :
        ncalls[1] < MaxCalls /\ SamplePosteriorCall(1, inp) /\ UNCHANGED hist

SamplePrior ==
    \E n \in PriorInputs :
        /\ ncalls[1] < MaxCalls /\ chains[1] = 0
        /\ SamplePriorCall(1, n) /\ UNCHANGED hist

NestedSamplePrior ==
    \E n \in PriorInputs :
        /\ ncalls[1] < MaxCalls /\ chains[1] # 0
        /\ NestedSamplePriorCall(1, n) /\ UNCHANGED hist

Next ==
    \/ Train \/ Predict \/ SamplePosterior \/ SamplePrior
    \/ NestedTrain \/ NestedSamplePrior

Spec == Init /\ [][Next]_vars

(* ------------------- the 50-epoch scenario and the loss log ------------- *)
\* the scenario's run: 512 rows of 2 columns, batch size 128, 50 epochs
ScenarioRun == TrainInput(512, 2, 128, 50, FALSE)

\* train calls that run long enough to log
ScenarioInputs ==
    { TrainInput(t[1], t[2], t[3], t[4], r) :
        t \in { <<2, 2, 2, 100>>,      \* 100 epochs
                <<2, 2, 1, 200>>,      \* 200 epochs of two minibatches
                <<2, 2, 5, 99>>,       \* 99 epochs
                <<3, 2, 2, 101>> },    \* 101 epochs, a row left over
        r \in BOOLEAN }

\* NestedDiffusionModel.train calls that run long enough to log
ScenarioNestedInputs ==
    { NestedTrainInput(t[1], t[2], r) :
        t \in { <<2, 100>>, <<1, 200>>, <<5, 99>> }, r \in BOOLEAN }

ScenarioInit ==
    \/ \E pr \in {0, 2} : Construct(3, pr)
    \/ ConstructNested(3, 2)

\* the scenario's run as the first training of the instance
ScenarioFirstTrain ==
    /\ ncalls[1] < MaxScenarioCalls /\ ndims[1] = 0 /\ chains[1] = 0
    /\ TrainCall(1, ScenarioRun) /\ UNCHANGED hist

ScenarioTrain ==
    \E inp \in ScenarioInputs :
        /\ ncalls[1] < MaxScenarioCalls /\ chains[1] = 0
        /\ TrainCall(1, inp) /\ UNCHANGED hist

ScenarioNestedTrain ==
    \E inp \in ScenarioNestedInputs :
        /\ ncalls[1] < MaxScenarioCalls /\ chains[1] # 0
        /\ NestedTrainCall(1, inp) /\ UNCHANGED hist

ScenarioSamplePosterior ==
    \E inp \in PosteriorInputs :
        ncalls[1] < MaxScenarioCalls /\ SamplePosteriorCall(1, inp)
                                     /\ UNCHANGED hist

ScenarioNext ==
    \/ ScenarioFirstTrain \/ ScenarioTrain \/ ScenarioSamplePosterior
    \/ ScenarioNestedTrain

ScenarioSpec == ScenarioInit /\ [][ScenarioNext]_vars

(* ------------------ two instances driven by the same calls -------------- *)
(* Instance 1 is driven by train and predict calls, which hist[1] records; *)
(* instance 2, constructed alike in the same process, is driven by the     *)
(* same calls in the same order.                                           *)
TwinTrain ==
    \E inp \in TrainInputs :
        /\ ncalls[1] < MaxTwinCalls /\ chains[1] = 0
        /\ TrainCall(1, inp)
        /\ hist' = [hist EXCEPT ![1] = Append(@, [op |-> "train", inp |-> inp])]

TwinPredict ==
    \E inp \in PredictInputs :
        /\ ncalls[1] < MaxTwinCalls
        /\ PredictCall(1, inp)
        /\ hist' = [hist EXCEPT ![1] = Append(@, [op |-> "predict", inp |-> inp])]

TwinNestedTrain ==
    \E inp \in NestedTrainInputs :
        /\ ncalls[1] < MaxTwinCalls /\ chains[1] # 0
        /\ NestedTrainCall(1, inp)
        /\ hist' = [hist EXCEPT ![1] = Append(@, [op |-> "nested_train", inp |-> inp])]

TwinReplay ==
    /\ ncalls[2] < Len(hist[1])
    /\ \E c \in {hist[1][ncalls[2] + 1]} :
          /\ IF c.op = "train" THEN TrainCall(2, c.inp)
             ELSE IF c.op = "nested_train" THEN NestedTrainCall(2, c.inp)
             ELSE PredictCall(2, c.inp)
          /\ hist' = [hist EXCEPT ![2] = Append(@, c)]

TwinNext == TwinTrain \/ TwinPredict \/ TwinNestedTrain \/ TwinReplay

TwinSpec == Init /\ [][TwinNext]_vars

(* ------------------------ the schedule on its grid ---------------------- *)
(* The schedule functions of an instance of `steps` = R evaluated on the   *)
(* grid of times j/N, j = 0 .. N, N = R - 1, from t = 0 upwards.           *)
SchedInit == \E R \in 2..MaxSchedSteps : Construct(R, 0)

SchedStart ==
    /\ sched.steps = 0
    /\ sched' = [NoSched EXCEPT !.steps = steps[1],
                                !.alpha = alpha_t(0, steps[1] - 1),
                                !.mean_factor = mean_factor(0, steps[1] - 1),
                                !.var = var(0, steps[1] - 1)]
    /\ UNCHANGED <<steps, prior, chains, rng, ndims, state, predict_fn, jit_cache,
                   drawn, reused, ret, ncalls, ambient, hist>>

SchedAdvance ==
    /\ sched.steps # 0 /\ sched.j < sched.steps - 1
    /\ sched' = [sched EXCEPT !.j = @ + 1,
                              !.alpha = alpha_t(sched.j + 1, sched.steps - 1),
                              !.mean_factor = mean_factor(sched.j + 1, sched.steps - 1),
                              !.var = var(sched.j + 1, sched.steps - 1),
                              !.prev_j = sched.j,
                              !.prev_alpha = sched.alpha,
                              !.prev_var = sched.var]
    /\ UNCHANGED <<steps, prior, chains, rng, ndims, state, predict_fn, jit_cache,
                   drawn, reused, ret, ncalls, ambient, hist>>

SchedNext == SchedStart \/ SchedAdvance

SchedSpec == SchedInit /\ [][SchedNext]_vars

(* ------------------------------- claims -------------------------------- *)
\* the step is a call on instance i
CallStep(i) == ncalls'[i] = ncalls[i] + 1

Inference == {"predict", "sample_posterior"}

\* train of DiffusionModel and of NestedDiffusionModel
TrainOps == {"train", "nested_train"}

(* C1: once a completed train call has established ndims = d, a train call *)
(* with data of another last dimension is rejected with an error and ndims *)
(* keeps the value d.                                                      *)
C1_MismatchRejected ==
    [][\A i \in Inst :
          (CallStep(i) /\ ret'[i].op = "train" /\ predict_fn[i] # 0
             /\ ret'[i].d # ndims[i])
          => (ret'[i].err # "none" /\ ndims'[i] = ndims[i])]_vars

(* C2: no random key is drawn from twice, whatever sequence of train,      *)
(* sample_prior, predict and sample_posterior calls ran on the instance.   *)
C2_NoKeyDrawnTwice == \A i \in Inst : reused[i] = {}

(* C3 as stated: a predict that returns gives a batch of the shape of its  *)
(* input and, with history=True, a trajectory of length steps - 1.         *)
C3_HistoryStepsMinusOne ==
    \A i \in Inst :
        (ret[i].op \in Inference /\ ret[i].err = "none")
        => /\ ret[i].shape = <<ret[i].n, ret[i].d>>
           /\ ret[i].history => ret[i].hist_len = steps[i] - 1

(* C3 amended: a predict that returns gives a batch of the shape of its    *)
(* input and, with history=True, a trajectory of length steps - 2: one     *)
(* checkpoint for each interval between the steps - 1 points of train_ts.  *)
C3_HistoryStepsMinusTwo ==
    \A i \in Inst :
        (ret[i].op \in Inference /\ ret[i].err = "none")
        => /\ ret[i].shape = <<ret[i].n, ret[i].d>>
           /\ ret[i].history => ret[i].hist_len = steps[i] - 2

C3_Witness ==
    /\ ret[1].op = "predict" /\ ret[1].err = "none" /\ ret[1].history
    /\ steps[1] = 4 /\ ret[1].hist_len = 2 /\ ret[1].shape = <<2, 2>>

(* C4 as stated: after a completed train call on a fresh model with 512    *)
(* rows, batch size 128 and n_epochs = 50 the loss log holds at least one  *)
(* entry.                                                                  *)
C4_LogNonEmptyAfterFifty ==
    \A i \in Inst :
        (ret[i].op = "train" /\ ret[i].err = "none" /\ ret[i].fresh
           /\ ret[i].n = 512 /\ ret[i].batch_size = 128 /\ ret[i].n_epochs = 50)
        => Len(state[i].losses) >= 1

(* C4 amended: after a completed train call of n_epochs epochs on a fresh  *)
(* model the loss log holds n_epochs \div 100 entries, one for each 100th  *)
(* epoch: none after the 50 epochs on 512 rows with batch size 128.        *)
C4_LogEveryHundredthEpoch ==
    \A i \in Inst :
        (ret[i].op = "train" /\ ret[i].err = "none" /\ ret[i].fresh)
        => Len(state[i].losses) = ret[i].n_epochs \div LogEvery

C4_Witness ==
    /\ ret[1].op = "train" /\ ret[1].err = "none" /\ ret[1].fresh
    /\ ret[1].n = 512 /\ ret[1].batch_size = 128 /\ ret[1].n_epochs = 50
    /\ ret[1].epochs_done = 50 /\ ret[1].grad_steps = 200
    /\ state[1].live /\ state[1].losses = <<>>

(* C5: predict or sample_posterior on an instance on which train was never *)
(* called raises, and rng, ndims and the trainable state are after the     *)
(* failed call what they were before it.                                   *)
C5_UntrainedInferenceChangesNothing ==
    [][\A i \in Inst :
          (CallStep(i) /\ ret'[i].op \in Inference /\ ndims[i] = 0)
          => /\ ret'[i].err # "none"
             /\ rng'[i] = rng[i] /\ ndims'[i] = ndims[i] /\ state'[i] = state[i]]_vars

(* C6: a train call on n > 0 rows with batch_size > n, whose data has the  *)
(* width the parameters (and the prior) have, uses the batch size n,       *)
(* indexes only rows 0 .. n-1, and completes its n_epochs epochs without   *)
(* error with exactly one gradient step in each.                           *)
C6_BatchClamped ==
    \A i \in Inst :
        (ret[i].op = "train" /\ ret[i].n > 0 /\ ret[i].batch_size > ret[i].n
           /\ ret[i].dim_ok)
        => /\ ret[i].err = "none"
           /\ ret[i].eff_batch = ret[i].n
           /\ ret[i].idx_ok
           /\ ret[i].epochs_done = ret[i].n_epochs
           /\ ret[i].grad_steps = ret[i].n_epochs

C6_Witness ==
    /\ ret[1].op = "train" /\ ret[1].n = 2 /\ ret[1].batch_size = 5
    /\ ret[1].dim_ok /\ ret[1].n_epochs = 2 /\ ret[1].grad_steps = 2
    /\ ret[1].eff_batch = 2

(* C7: a train call with data of zero rows raises before the trainable     *)
(* state is initialised or replaced and before any random draw is made.    *)
C7_EmptyDataRejectedEarly ==
    [][\A i \in Inst :
          (CallStep(i) /\ ret'[i].op = "train" /\ ret'[i].n = 0)
          => /\ ret'[i].err # "none"
             /\ state'[i] = state[i] /\ drawn'[i] = drawn[i] /\ rng'[i] = rng[i]
             /\ ambient' = ambient]_vars

(* C8: two instances constructed alike and driven by the same sequence of  *)
(* train and predict calls with the same inputs have reached the same      *)
(* trainable state and returned the same outputs.                          *)
C8_TwinsAgree ==
    (hist[2] = hist[1])
    => /\ state[2] = state[1]
       /\ ret[2].err = ret[1].err
       /\ ret[2].shape = ret[1].shape
       /\ ret[2].out = ret[1].out

(* C9: a predict or sample_posterior call leaves the trainable state       *)
(* (parameters, statistics, optimizer state, loss log) as it was, and a    *)
(* predict on the samples and the key of the call before it returns what   *)
(* that call returned.                                                     *)
C9_InferenceLearnsNothing ==
    [][\A i \in Inst :
          (CallStep(i) /\ ret'[i].op \in Inference)
          => /\ state'[i] = state[i]
             /\ ret'[i].repeat => ret'[i].out = ret'[i].prev_out]_vars

C9_Witness ==
    /\ ret[1].op = "predict" /\ ret[1].err = "none" /\ ret[1].repeat
    /\ state[1].live /\ state[1].opt > 0

(* C10: alpha_t(0) = 0, var(0) = 0 and mean_factor(0) = 1; from one time   *)
(* of the grid to the next alpha_t does not decrease, and neither does var *)
(* (1 - exp(-a) <= 1 - exp(-b) iff a <= b; exp(-0) = 1).                   *)
C10_ScheduleStartsAtZeroAndGrows ==
    sched.steps # 0
    => /\ sched.j = 0 => /\ sched.alpha = 0
                         /\ sched.var.one_minus_exp_neg = 0
                         /\ sched.mean_factor.exp_neg = 0
       /\ sched.j > 0 => /\ sched.prev_j = sched.j - 1
                         /\ sched.prev_alpha <= sched.alpha
                         /\ sched.prev_var.one_minus_exp_neg
                               <= sched.var.one_minus_exp_neg

C10_Witness ==
    /\ sched.steps = 5 /\ sched.j = 4 /\ sched.prev_j = 3
    /\ sched.prev_alpha < sched.alpha

(* C11: a train call begins with a newly initialised trainable state       *)
(* (parameters drawn for the data's width, optimizer at its start, empty   *)
(* loss log) when the instance has no state or restart is passed, and with *)
(* the state the instance had (parameters, statistics, optimizer state and *)
(* loss log) otherwise; once a train call has completed the instance       *)
(* always has a state.                                                     *)
C11_InitialisedIffNoStateOrRestart ==
    [][\A i \in Inst :
          CallStep(i)
          => /\ (ret'[i].op \in TrainOps /\ ((~state[i].live) \/ ret'[i].restart))
                => /\ ret'[i].start.live
                   /\ ret'[i].start.dim = ret'[i].d
                   /\ ret'[i].start.params = Mix(KeyDigest(rng[i]), ret'[i].d)
                   /\ ret'[i].start.opt = 0
                   /\ ret'[i].start.losses = <<>>
             /\ (ret'[i].op \in TrainOps /\ state[i].live /\ ~ret'[i].restart)
                => ret'[i].start = state[i]
             /\ predict_fn[i] # 0 => state'[i].live
             /\ predict_fn'[i] # 0 => state'[i].live]_vars

C11_Witness ==
    /\ ret[1].op = "train" /\ ret[1].err = "none" /\ ~ret[1].restart
    /\ ~ret[1].fresh /\ ret[1].start.live /\ ret[1].start.opt > 0
    /\ ret[1].grad_steps > 0 /\ state[1].opt = ret[1].start.opt + ret[1].grad_steps

\* the log a train call starts from, and the gradient steps of an epoch
LogAtStart(i) == IF state[i].live /\ ~ret'[i].restart THEN state[i].losses ELSE <<>>
StepsPerEpoch(r) == IF r.op = "nested_train" THEN 1 ELSE r.n \div r.eff_batch

\* the entries a completed train call appends: one at the end of every
\* 100th epoch and no other, each the mean of all per-step losses of the
\* call so far with the epoch index; the log the call started from is kept
\* as it was; no other call touches the log
LogCadence(i) ==
    /\ (ret'[i].op \in TrainOps /\ ret'[i].err = "none")
       => /\ Len(state'[i].losses)
               = Len(LogAtStart(i)) + ret'[i].n_epochs \div LogEvery
          /\ SubSeq(state'[i].losses, 1, Len(LogAtStart(i))) = LogAtStart(i)
          /\ \A q \in 1..(ret'[i].n_epochs \div LogEvery) :
                state'[i].losses[Len(LogAtStart(i)) + q]
                  = << SumRange(ret'[i].losses, 1,
                                LogEvery * q * StepsPerEpoch(ret'[i]))
                         \div (LogEvery * q * StepsPerEpoch(ret'[i])),
                       LogEvery * q - 1 >>
    /\ ret'[i].op \notin TrainOps => state'[i].losses = state[i].losses

\* the epoch indices of entries a .. b of a log are strictly increasing
IndicesIncrease(log, a, b) ==
    \A x, y \in a..b : x < y => log[x][2] < log[y][2]

(* C12 as stated: the cadence of the log, and the epoch indices recorded   *)
(* in the log are strictly increasing.                                     *)
C12_WholeLogIndicesIncrease ==
    [][\A i \in Inst :
          CallStep(i)
          => /\ LogCadence(i)
             /\ IndicesIncrease(state'[i].losses, 1, Len(state'[i].losses))]_vars

(* C12 amended: the cadence of the log, and the epoch indices of the       *)
(* entries one train call appends are strictly increasing (the index is    *)
(* the epoch of that call, so a log continued by a later call repeats      *)
(* indices).                                                               *)
C12_CallEntriesIndicesIncrease ==
    [][\A i \in Inst :
          CallStep(i)
          => /\ LogCadence(i)
             /\ (ret'[i].op \in TrainOps /\ ret'[i].err = "none")
                => IndicesIncrease(state'[i].losses, Len(LogAtStart(i)) + 1,
                                   Len(state'[i].losses))]_vars

C12_Witness ==
    /\ ret[1].op = "train" /\ ret[1].err = "none" /\ ~ret[1].restart
    /\ ret[1].n_epochs = 200 /\ Len(ret[1].losses) = 400
    /\ Len(ret[1].start.losses) = 1
    /\ Len(state[1].losses) = 3
    /\ state[1].losses[2][2] = 99 /\ state[1].losses[3][2] = 199

(* C13: a train call on n > 0 rows, whose data has the width the           *)
(* parameters (and the prior) have, runs with B = min(batch_size, n):      *)
(* every epoch draws a permutation from a key of its own and makes exactly *)
(* n \div B minibatches of exactly B row indices among 0 .. n-1, no index  *)
(* twice within an epoch; each minibatch takes its prior rows at its data  *)
(* rows and makes one gradient step, n_epochs * (n \div B) in all, each    *)
(* replacing the trainable state.                                          *)
C13_PermutationMinibatches ==
    \A i \in Inst :
        (ret[i].op = "train" /\ ret[i].n > 0 /\ ret[i].dim_ok)
        => LET B   == IF ret[i].batch_size > ret[i].n THEN ret[i].n
                      ELSE ret[i].batch_size
               spe == ret[i].n \div B
               bt  == ret[i].batches
           IN  /\ ret[i].err = "none"
               /\ Len(bt) = ret[i].n_epochs * spe
               /\ ret[i].grad_steps = ret[i].n_epochs * spe
               /\ state[i].opt = ret[i].start.opt + ret[i].n_epochs * spe
               /\ \A p \in 1..Len(bt) :
                     /\ bt[p].epoch = (p - 1) \div spe
                     /\ Len(bt[p].rows) = B
                     /\ \A x \in 1..B : bt[p].rows[x] \in 0..(ret[i].n - 1)
                     /\ bt[p].prior_rows = bt[p].rows
               /\ \A p, q \in 1..Len(bt) :
                     /\ bt[p].epoch = bt[q].epoch
                        => /\ bt[p].perm_key = bt[q].perm_key
                           /\ \A x, y \in 1..B :
                                 (p # q \/ x # y) => bt[p].rows[x] # bt[q].rows[y]
                     /\ bt[p].epoch # bt[q].epoch
                        => bt[p].perm_key # bt[q].perm_key

C13_Witness ==
    /\ ret[1].op = "train" /\ ret[1].err = "none" /\ ret[1].dim_ok
    /\ ret[1].n = 5 /\ ret[1].batch_size = 2 /\ ret[1].n_epochs = 2
    /\ Len(ret[1].batches) = 4 /\ ret[1].grad_steps = 4
    /\ ret[1].batches[3].epoch = 1 /\ Len(ret[1].batches[3].rows) = 2

====
